---- MODULE Spec2Model ----
(***************************************************************************)
(* TimeSkwire: one run of the report extension.                            *)
(*   main -> parse_input (stdin text -> config map, Vec<Interval>)         *)
(*        -> DefaultReport::render (boundaries, aggregation, colours,      *)
(*           Pdf::create, page drawing) -> doc.finish.                     *)
(*                                                                         *)
(* Text is a sequence of tokens.  The separator characters newline, ":"    *)
(* and " " are tokens of their own; every other token is an atomic run of  *)
(* characters that holds none of them (a key, a timestamp, the text of one *)
(* JSON object).  Instants and durations are whole seconds.                *)
(***************************************************************************)
EXTENDS Integers, Sequences, FiniteSets, TLC

\* ------------------------------------------------------------------ bounds
\* Most JSON objects in the body array.
MaxRecords == 2
\* Latest reading of the clock (Utc::now).
MaxNow == 4
\* Largest hour count of the durations format_hms is applied to on its own.
MaxHours == 100

\* ------------------------------------------------------ program constants
PageWidth == 180
PageHeight == 240
Margin == 10
TitleDrop == 20
LegendDrop == 40
RowSpacing == 6
BarDrop == 15
BarHeight == 10
SwatchSize == 3
ChannelScale == 256
\* value 0.75 of the Hsv colour, as a fraction ValueNum / ValueDen
ValueNum == 3
ValueDen == 4

\* -------------------------------------------------------------- text model
NL == "\n"
StartKey == <<"temp.report.start">>
EndKey == <<"temp.report.end">>

\* chrono's Utc.datetime_from_str(text, "%Y%m%dT%H%M%SZ"): the texts that
\* match the pattern, with the instant each denotes.
StampSecs ==
  ("20180101T000000Z" :> 0) @@ ("20180101T000001Z" :> 1) @@ ("20180101T000002Z" :> 2)

\* Earliest reading of the clock: the run starts after the last logged instant.
NowMin == StampSecs["20180101T000002Z"] + 1

\* datetime_from_str on a token: [ok, secs]
datetime_from_str(tok) ==
  IF tok \in DOMAIN StampSecs THEN [ok |-> TRUE, secs |-> StampSecs[tok]]
                              ELSE [ok |-> FALSE, secs |-> 0]

\* serde_json's decoding of the text of one JSON object: the keys present
\* and their values (tags: array of strings, start/end: strings).
ObjectOf ==
  ("{tags:[],start:T0,end:T1}" :>
      [tags |-> <<>>, start |-> "20180101T000000Z", end |-> "20180101T000001Z"]) @@
  ("{tags:[],start:T0}" :>
      [tags |-> <<>>, start |-> "20180101T000000Z"]) @@
  ("{tags:[a],start:T0,end:T1}" :>
      [tags |-> <<"a">>, start |-> "20180101T000000Z", end |-> "20180101T000001Z"]) @@
  ("{tags:[a],start:T0,end:T2}" :>
      [tags |-> <<"a">>, start |-> "20180101T000000Z", end |-> "20180101T000002Z"]) @@
  ("{tags:[a],start:T0}" :>
      [tags |-> <<"a">>, start |-> "20180101T000000Z"]) @@
  ("{tags:[a,b],start:T0,end:T1}" :>
      [tags |-> <<"a", "b">>, start |-> "20180101T000000Z", end |-> "20180101T000001Z"]) @@
  ("{tags:[a,b],start:T0,end:T2}" :>
      [tags |-> <<"a", "b">>, start |-> "20180101T000000Z", end |-> "20180101T000002Z"]) @@
  ("{tags:[b,a,a],start:T0,end:T1}" :>
      [tags |-> <<"b", "a", "a">>, start |-> "20180101T000000Z", end |-> "20180101T000001Z"]) @@
  ("{tags:[a],start:T2,end:T1}" :>
      [tags |-> <<"a">>, start |-> "20180101T000002Z", end |-> "20180101T000001Z"]) @@
  ("{tags:[],start:T1,end:T1}" :>
      [tags |-> <<>>, start |-> "20180101T000001Z", end |-> "20180101T000001Z"]) @@
  ("{start:T0,end:T1}" :>
      [start |-> "20180101T000000Z", end |-> "20180101T000001Z"]) @@
  ("{tags:[a],end:T1}" :>
      [tags |-> <<"a">>, end |-> "20180101T000001Z"]) @@
  ("{tags:[a],start:yesterday,end:T1}" :>
      [tags |-> <<"a">>, start |-> "yesterday", end |-> "20180101T000001Z"]) @@
  ("{tags:[a],start:T0,end:yesterday}" :>
      [tags |-> <<"a">>, start |-> "20180101T000000Z", end |-> "yesterday"])

ObjectTexts == DOMAIN ObjectOf

\* Index of the first occurrence of the two-token pattern <<a, b>> in s, 0 if none.
RECURSIVE FindPair(_, _, _, _)
FindPair(s, a, b, i) ==
  IF i + 1 > Len(s) THEN 0
  ELSE IF s[i] = a /\ s[i + 1] = b THEN i
  ELSE FindPair(s, a, b, i + 1)

\* str::split("\n\n"): every non-overlapping blank-line boundary cuts.
RECURSIVE SplitBlank(_)
SplitBlank(s) ==
  LET i == FindPair(s, NL, NL, 1) IN
    IF i = 0 THEN <<s>>
    ELSE <<SubSeq(s, 1, i - 1)>> \o SplitBlank(SubSeq(s, i + 2, Len(s)))

\* Index of the first newline of s at or after i, 0 if none.
RECURSIVE FindNL(_, _)
FindNL(s, i) ==
  IF i > Len(s) THEN 0
  ELSE IF s[i] = NL THEN i
  ELSE FindNL(s, i + 1)

\* str::lines(): cut at every newline; a final empty line is not yielded.
RECURSIVE Lines(_)
Lines(s) ==
  IF s = <<>> THEN <<>>
  ELSE LET i == FindNL(s, 1) IN
    IF i = 0 THEN <<s>>
    ELSE <<SubSeq(s, 1, i - 1)>> \o Lines(SubSeq(s, i + 1, Len(s)))

\* str::splitn(2, ": "): at most two pieces, cut at the first ": ".
Splitn2(line) ==
  LET i == FindPair(line, ":", " ", 1) IN
    IF i = 0 THEN <<line>>
    ELSE <<SubSeq(line, 1, i - 1), SubSeq(line, i + 2, Len(line))>>

\* HashMap::insert
MapInsert(m, k, v) == [x \in (DOMAIN m) \cup {k} |-> IF x = k THEN v ELSE m[x]]

\* The header loop of parse_input over the lines of sections[0]:
\* entry[1] is an index out of bounds (a panic) when the line has no ": ".
RECURSIVE HeaderLoop(_, _)
HeaderLoop(lines, cfg) ==
  IF lines = <<>> THEN [panic |-> FALSE, config |-> cfg]
  ELSE LET entry == Splitn2(Head(lines)) IN
    IF Len(entry) < 2 THEN [panic |-> TRUE, config |-> cfg]
    ELSE HeaderLoop(Tail(lines), MapInsert(cfg, entry[1], entry[2]))

\* JSON whitespace is skipped between tokens.
IsSpace(tok) == tok = NL \/ tok = " "
StripSpace(s) == SelectSeq(s, LAMBDA tok : ~IsSpace(tok))

\* serde_json::from_str::<Vec<Value>>: "[" object ("," object)* "]" or "[" "]",
\* nothing but whitespace around; anything else is an error.
JsonArray(body) ==
  LET t == StripSpace(body)
      n == Len(t)
      inner == IF n >= 2 THEN SubSeq(t, 2, n - 1) ELSE <<>>
      k == Len(inner)
      wellFormed ==
        /\ n >= 2 /\ t[1] = "[" /\ t[n] = "]"
        /\ (k = 0 \/ k % 2 = 1)
        /\ \A j \in 1..k : IF j % 2 = 1 THEN inner[j] \in ObjectTexts ELSE inner[j] = ","
  IN IF wellFormed
       THEN [ok |-> TRUE,
             values |-> [j \in 1..((k + 1) \div 2) |-> ObjectOf[inner[2 * j - 1]]]]
       ELSE [ok |-> FALSE, values |-> <<>>]

\* (mutant) the set is rebuilt at every turn of the tag loop: only the last tag stays
InsertLast(tags_raw, tags) ==
  IF tags_raw = <<>> THEN tags ELSE {tags_raw[Len(tags_raw)]}

\* The tag loop of parse_input: BTreeSet::insert of every element of the array.
RECURSIVE InsertAll(_, _)
InsertAll(tags_raw, tags) ==
  IF tags_raw = <<>> THEN tags
  ELSE InsertAll(Tail(tags_raw), tags \cup {Head(tags_raw)})

\* (mutant) an object without an "end" key is refused
EndRequired(value, t) ==
  IF "end" \in DOMAIN value THEN datetime_from_str(value.end)
                            ELSE [ok |-> FALSE, secs |-> 0]

\* The end of one interval: the parsed "end" when the key is present, the
\* clock reading t when it is not.
EndOf(value, t) ==
  IF "end" \in DOMAIN value THEN datetime_from_str(value.end)
                            ELSE [ok |-> TRUE, secs |-> t]

\* Interval::duration
to_duration(interval) == interval.end - interval.start


\* config value -> instant: the value is one token matching the pattern
FromStrText(text) ==
  IF Len(text) = 1 THEN datetime_from_str(text[1]) ELSE [ok |-> FALSE, secs |-> 0]

\* (mutant) a later encounter of a tag set overwrites what was accumulated
AccumulateOverwrite(m, tags, d) == MapInsert(m, tags, d)

\* The aggregation loop body: insert-or-accumulate on the tag set.
Accumulate(m, tags, d) ==
  IF tags \in DOMAIN m THEN MapInsert(m, tags, m[tags] + d)
                       ELSE MapInsert(m, tags, d)

\* Every sequence that lists the elements of the finite set S once each.
Orders(S) ==
  {f \in [1..Cardinality(S) -> S] : \A i, j \in 1..Cardinality(S) : f[i] = f[j] => i = j}

\* HashMap::iter().collect(): the entries in the map's iteration order, which the
\* hasher's random state decides.
IterOrders(m) == Orders(DOMAIN m)

\* sort_unstable_by(duration): any arrangement of v that ascends by duration.
SortUnstable(v, m) ==
  {s \in Orders({v[i] : i \in DOMAIN v}) :
      \A i, j \in DOMAIN s : i < j => m[s[i]] <= m[s[j]]}

\* Hsv(hue = k * (2 pi / n), 1.0, 0.75) -> Rgb -> (channel * 256.0) as u8, in
\* exact arithmetic: sector = floor(6k/n), x = c * (1 - |6k/n mod 2 - 1|).
HsvToRgb(k, n) ==
  LET c == (ChannelScale * ValueNum) \div ValueDen
      sector == ((6 * k) \div n) % 6
      r == (6 * k) % (2 * n)
      dist == IF r >= n THEN r - n ELSE n - r
      x == (ChannelScale * ValueNum * (n - dist)) \div (ValueDen * n)
  IN CASE sector = 0 -> <<c, x, 0>>
       [] sector = 1 -> <<x, c, 0>>
       [] sector = 2 -> <<0, c, x>>
       [] sector = 3 -> <<0, x, c>>
       [] sector = 4 -> <<x, 0, c>>
       [] OTHER      -> <<c, 0, x>>

\* The colour-assigning map over the sorted vector: entry i gets hue (i-1) * increment.
AssignColors(s, m) ==
  [i \in DOMAIN s |->
     [tags |-> s[i], duration |-> m[s[i]], color |-> HsvToRgb(i - 1, Len(s))]]

\* .iter().rev() of the bar chart loop
Rev(v) == [i \in DOMAIN v |-> v[Len(v) + 1 - i]]

\* Integer division of chrono's num_hours / num_minutes: truncates toward zero.
TruncDiv(a, b) == IF a >= 0 THEN a \div b ELSE -((-a) \div b)

DigitChars == <<"0", "1", "2", "3", "4", "5", "6", "7", "8", "9">>

\* "{}" of a non-negative integer
RECURSIVE NatText(_)
NatText(n) ==
  IF n < 10 THEN <<DigitChars[n + 1]>>
  ELSE NatText(n \div 10) \o <<DigitChars[(n % 10) + 1]>>

\* "{}" of an integer
IntText(n) == IF n < 0 THEN <<"-">> \o NatText(-n) ELSE NatText(n)

\* "{:02}": zero-padded to a width of two, the sign counted in the width
Pad2(n) ==
  LET t == IntText(n) IN
    IF Len(t) >= 2 THEN t
    ELSE IF n < 0 THEN <<"-">> \o <<"0">> \o NatText(-n)
    ELSE <<"0">> \o t

\* (mutant) the minutes are taken from the whole duration, the hours not subtracted
format_hms_whole_minutes(d) ==
  LET h == TruncDiv(d, 3600)
      m == TruncDiv(d, 60)
      s == d - m * 60
  IN IntText(h) \o <<":">> \o Pad2(m) \o <<":">> \o Pad2(s)

\* util::format_hms
format_hms(d) ==
  LET h == TruncDiv(d, 3600)
      tmp1 == d - h * 3600
      m == TruncDiv(tmp1, 60)
      tmp2 == tmp1 - m * 60
      s == tmp2
  IN IntText(h) \o <<":">> \o Pad2(m) \o <<":">> \o Pad2(s)

\* ------------------------------------------------------------------ state
VARIABLES
  raw,                  \* the text on standard input
  pc,                   \* where the run is
  abort,                \* the stage whose failure ended the run, "" if none
  parsed,               \* how parse_input ended: "pending", "Ok", "Err", "Panic"
  sections, config, values, intervals,
  idx,                  \* index of the loop in progress
  now,                  \* last reading of the clock
  report_start, report_end,
  total_time_logged, unique_tag_sets,
  colorspace_increment, \* [evaluated, divisor]
  sorted,               \* the Vec of (tag_set, duration, colour)
  document,             \* "none", "created", "finished"
  canvas,               \* drawing instructions issued, in order
  offset, bar_start_x,
  hms_in, hms_out       \* format_hms applied on its own

vars ==
  <<raw, pc, abort, parsed, sections, config, values, intervals, idx, now,
    report_start, report_end, total_time_logged, unique_tag_sets,
    colorspace_increment, sorted, document, canvas, offset, bar_start_x,
    hms_in, hms_out>>

parseVars == <<sections, config, values, intervals>>
renderVars ==
  <<report_start, report_end, total_time_logged, unique_tag_sets,
    colorspace_increment, sorted>>
drawVars == <<document, canvas, offset, bar_start_x>>
hmsVars == <<hms_in, hms_out>>

\* ----------------------------------------------------------------- inputs
Sep == <<":", " ">>
Line(key, value) == key \o Sep \o value \o <<NL>>

GoodStart == Line(StartKey, <<"20180101T000000Z">>)
GoodEnd == Line(EndKey, <<"20180101T000002Z">>)

Headers ==
  { GoodStart \o GoodEnd,
    Line(<<"temp.version">>, <<"1.1.0", ":", " ", "beta">>) \o GoodStart \o Line(EndKey, <<>>),
    Line(StartKey, <<"yesterday">>) \o GoodEnd,
    GoodStart \o Line(EndKey, <<"yesterday">>),
    GoodEnd,
    GoodStart,
    <<"temp.version", NL>> \o GoodStart \o GoodEnd }

RECURSIVE SeqsUpTo(_, _)
SeqsUpTo(S, n) ==
  IF n = 0 THEN {<<>>}
  ELSE LET shorter == SeqsUpTo(S, n - 1) IN
    shorter \cup {Append(s, x) : s \in shorter, x \in S}

\* "[" NL object "," NL object NL "]" NL, as timewarrior writes the array
RECURSIVE Joined(_)
Joined(objs) ==
  IF objs = <<>> THEN <<>>
  ELSE IF Len(objs) = 1 THEN <<objs[1], NL>>
  ELSE <<objs[1], ",", NL>> \o Joined(Tail(objs))

BodyText(objs) == <<"[", NL>> \o Joined(objs) \o <<"]", NL>>
\* the same array with an empty line after the opening bracket
BodyTextBlank(objs) == <<"[", NL, NL>> \o Joined(objs) \o <<"]", NL>>

Tails(objs) ==
  { <<NL>> \o BodyText(objs),
    <<NL>> \o BodyTextBlank(objs),
    BodyText(objs),
    <<>> }

Inputs ==
  {h \o t : h \in Headers,
            t \in UNION {Tails(objs) : objs \in SeqsUpTo(ObjectTexts, MaxRecords)}}

NoIncrement == [evaluated |-> FALSE, divisor |-> 0]

Fresh ==
  /\ abort = ""
  /\ parsed = "pending"
  /\ sections = <<>>
  /\ config = <<>>
  /\ values = <<>>
  /\ intervals = <<>>
  /\ idx = 0
  /\ now = NowMin
  /\ report_start = 0
  /\ report_end = 0
  /\ total_time_logged = 0
  /\ unique_tag_sets = <<>>
  /\ colorspace_increment = NoIncrement
  /\ sorted = <<>>
  /\ document = "none"
  /\ canvas = <<>>
  /\ offset = 0
  /\ bar_start_x = 0

Init ==
  /\ raw \in Inputs
  /\ pc = "read"
  /\ Fresh
  /\ hms_in = 0
  /\ hms_out = <<>>

\* ------------------------------------------------------------ parse_input
\* main.rs 166-174: read everything, split at blank lines
ReadSplit ==
  /\ pc = "read"
  /\ sections' = SplitBlank(raw)
  /\ pc' = "header"
  /\ UNCHANGED <<raw, abort, parsed, config, values, intervals, idx, now>>
  /\ UNCHANGED <<renderVars, drawVars, hmsVars>>

\* main.rs 176-183: the header loop over sections[0]
ParseHeader ==
  /\ pc = "header"
  /\ LET r == HeaderLoop(Lines(sections[1]), <<>>) IN
       IF r.panic
         THEN /\ pc' = "aborted" /\ abort' = "header" /\ parsed' = "Panic"
              /\ UNCHANGED config
         ELSE /\ pc' = "body" /\ config' = r.config
              /\ UNCHANGED <<abort, parsed>>
  /\ UNCHANGED <<raw, sections, values, intervals, idx, now>>
  /\ UNCHANGED <<renderVars, drawVars, hmsVars>>

\* main.rs 185: sections[1] handed to serde_json
ParseBody ==
  /\ pc = "body"
  /\ IF Len(sections) < 2
       THEN /\ pc' = "aborted" /\ abort' = "body" /\ parsed' = "Panic"
            /\ UNCHANGED <<values, idx>>
       ELSE LET r == JsonArray(sections[2]) IN
         IF r.ok
           THEN /\ values' = r.values /\ idx' = 1 /\ pc' = "records"
                /\ UNCHANGED <<abort, parsed>>
           ELSE /\ pc' = "aborted" /\ abort' = "body" /\ parsed' = "Err"
                /\ UNCHANGED <<values, idx>>
  /\ UNCHANGED <<raw, sections, config, intervals, now>>
  /\ UNCHANGED <<renderVars, drawVars, hmsVars>>

\* main.rs 189-222: one turn of the loop over the JSON values
ParseRecord ==
  /\ pc = "records"
  /\ idx <= Len(values)
  /\ LET value == values[idx] IN
       IF "tags" \notin DOMAIN value \/ "start" \notin DOMAIN value
         THEN /\ pc' = "aborted" /\ abort' = "record" /\ parsed' = "Panic"
              /\ UNCHANGED <<intervals, idx, now>>
         ELSE LET start == datetime_from_str(value.start) IN
           IF ~start.ok
             THEN /\ pc' = "aborted" /\ abort' = "record" /\ parsed' = "Err"
                  /\ UNCHANGED <<intervals, idx, now>>
             ELSE \E t \in now..MaxNow :
               LET end == EndOf(value, t) IN
                 /\ ("end" \in DOMAIN value) => t = now
                 /\ now' = t
                 /\ IF ~end.ok
                      THEN /\ pc' = "aborted" /\ abort' = "record" /\ parsed' = "Err"
                           /\ UNCHANGED <<intervals, idx>>
                      ELSE /\ intervals' = Append(intervals,
                                  [start |-> start.secs, end |-> end.secs,
                                   tags |-> InsertAll(value.tags, {})])
                           /\ idx' = idx + 1
                           /\ UNCHANGED <<pc, abort, parsed>>
  /\ UNCHANGED <<raw, sections, config, values>>
  /\ UNCHANGED <<renderVars, drawVars, hmsVars>>

\* main.rs 224, 95: Ok((config, intervals)) unwrapped by main
ParseReturn ==
  /\ pc = "records"
  /\ idx > Len(values)
  /\ parsed' = "Ok"
  /\ pc' = "render"
  /\ UNCHANGED <<raw, abort, sections, config, values, intervals, idx, now>>
  /\ UNCHANGED <<renderVars, drawVars, hmsVars>>


\* ------------------------------------------------- DefaultReport::render
TitleY == PageHeight - TitleDrop
UniqueTagInitialY == TitleY - LegendDrop
BarWidth == PageWidth - 2 * Margin

\* (mutant) a boundary that does not parse is passed over and the run goes on
BoundaryIgnored == pc' = "aggregate" /\ UNCHANGED abort

\* default.rs 35, 39: the ? on a boundary that does not parse returns the error
\* from render, and main's unwrap ends the run.
BoundaryFailure == pc' = "aborted" /\ abort' = "boundary"

\* default.rs 27-46: the report boundaries from the configuration.
\* config[key] panics when the key is absent; a failed parse is returned
\* with ? and unwrapped by main.
RenderBoundaries ==
  /\ pc = "render"
  /\ IF StartKey \notin DOMAIN config \/ EndKey \notin DOMAIN config
       THEN /\ pc' = "aborted" /\ abort' = "boundary"
            /\ UNCHANGED <<report_start, report_end, now>>
       ELSE LET start == FromStrText(config[StartKey]) IN
         IF ~start.ok
           THEN /\ BoundaryFailure
                /\ UNCHANGED <<report_start, report_end, now>>
           ELSE \E t \in now..MaxNow :
             LET end == IF config[EndKey] = <<>> THEN [ok |-> TRUE, secs |-> t]
                                                ELSE FromStrText(config[EndKey]) IN
               /\ (config[EndKey] # <<>>) => t = now
               /\ now' = t
               /\ IF ~end.ok
                    THEN /\ BoundaryFailure
                         /\ UNCHANGED <<report_start, report_end>>
                    ELSE /\ report_start' = start.secs
                         /\ report_end' = end.secs
                         /\ pc' = "aggregate"
                         /\ UNCHANGED abort
  /\ idx' = 1
  /\ UNCHANGED <<raw, parsed, parseVars>>
  /\ UNCHANGED <<total_time_logged, unique_tag_sets, colorspace_increment, sorted>>
  /\ UNCHANGED <<drawVars, hmsVars>>

\* default.rs 51-63: one turn of the aggregation loop
AggregateStep ==
  /\ pc = "aggregate"
  /\ idx <= Len(intervals)
  /\ LET interval == intervals[idx] IN
       /\ total_time_logged' = total_time_logged + to_duration(interval)
       /\ unique_tag_sets' = Accumulate(unique_tag_sets, interval.tags, to_duration(interval))
  /\ idx' = idx + 1
  /\ UNCHANGED <<raw, pc, abort, parsed, parseVars, now>>
  /\ UNCHANGED <<report_start, report_end, colorspace_increment, sorted>>
  /\ UNCHANGED <<drawVars, hmsVars>>

\* default.rs 65-97: group count, hue increment, sorted vector, colours
Encode ==
  /\ pc = "aggregate"
  /\ idx > Len(intervals)
  /\ colorspace_increment' =
       [evaluated |-> TRUE, divisor |-> Cardinality(DOMAIN unique_tag_sets)]
  /\ \E v \in IterOrders(unique_tag_sets) :
       \E s \in SortUnstable(v, unique_tag_sets) :
         sorted' = AssignColors(s, unique_tag_sets)
  /\ pc' = "create"
  /\ UNCHANGED <<raw, abort, parsed, parseVars, idx, now>>
  /\ UNCHANGED <<report_start, report_end, total_time_logged, unique_tag_sets>>
  /\ UNCHANGED <<drawVars, hmsVars>>

\* default.rs 99: Pdf::create(report_filename)?
CreateDocument ==
  /\ pc = "create"
  /\ \E ok \in BOOLEAN :
       IF ok THEN /\ document' = "created" /\ pc' = "title" /\ UNCHANGED abort
             ELSE /\ pc' = "aborted" /\ abort' = "create" /\ UNCHANGED document
  /\ UNCHANGED <<raw, parsed, parseVars, idx, now, renderVars>>
  /\ UNCHANGED <<canvas, offset, bar_start_x, hmsVars>>

\* default.rs 107-128: divider line, title, legend heading
DrawTitle ==
  /\ pc = "title"
  /\ canvas' = canvas \o
       << [part |-> "title", op |-> "line", y |-> TitleY - 6],
          [part |-> "title", op |-> "center_text", x |-> 90, y |-> TitleY,
           from |-> report_start, to |-> report_end],
          [part |-> "heading", op |-> "left_text", x |-> Margin, y |-> TitleY - 30] >>
  /\ offset' = 0
  /\ idx' = 1
  /\ pc' = "legend"
  /\ UNCHANGED <<raw, abort, parsed, parseVars, now, renderVars>>
  /\ UNCHANGED <<document, bar_start_x, hmsVars>>

\* default.rs 132-159: one legend row: swatch, tag set with percentage, duration
LegendRow ==
  /\ pc = "legend"
  /\ idx <= Len(sorted)
  /\ LET g == sorted[idx]
         y == UniqueTagInitialY - offset
     IN canvas' = canvas \o
       << [part |-> "legend", op |-> "rectangle", x |-> Margin, y |-> y,
           w |-> SwatchSize, h |-> SwatchSize, color |-> g.color],
          [part |-> "legend", op |-> "left_text", x |-> Margin * 2, y |-> y,
           tags |-> g.tags, pct_num |-> g.duration * 100, pct_den |-> total_time_logged],
          [part |-> "legend", op |-> "right_text", x |-> PageWidth - Margin, y |-> y,
           text |-> format_hms(g.duration)] >>
  /\ offset' = offset + RowSpacing
  /\ idx' = idx + 1
  /\ UNCHANGED <<raw, pc, abort, parsed, parseVars, now, renderVars>>
  /\ UNCHANGED <<document, bar_start_x, hmsVars>>

\* default.rs 160-175: the TOTAL row under the legend
TotalRow ==
  /\ pc = "legend"
  /\ idx > Len(sorted)
  /\ LET y == UniqueTagInitialY - offset IN
       canvas' = canvas \o
         << [part |-> "total", op |-> "left_text", x |-> Margin * 2, y |-> y],
            [part |-> "total", op |-> "right_text", x |-> PageWidth - Margin, y |-> y,
             text |-> format_hms(total_time_logged)] >>
  /\ bar_start_x' = 0
  /\ idx' = 1
  /\ pc' = "bars"
  /\ UNCHANGED <<raw, abort, parsed, parseVars, now, renderVars>>
  /\ UNCHANGED <<document, offset, hmsVars>>

\* (mutant) the bar chart loop without .rev()
BarOrderForward(v) == v

\* The order the bar chart loop visits the vector in.
BarOrder(v) == Rev(v)

\* default.rs 178-193: one bar segment.  x = Margin + BarWidth * start_num / den
\* and width = BarWidth * ratio_num / den (den = 0: the f32 ratio is NaN).
BarSegment ==
  /\ pc = "bars"
  /\ idx <= Len(sorted)
  /\ LET g == BarOrder(sorted)[idx] IN
       /\ canvas' = Append(canvas,
            [part |-> "bar", op |-> "rectangle",
             y |-> UniqueTagInitialY - (offset + BarDrop), h |-> BarHeight,
             start_num |-> bar_start_x, ratio_num |-> g.duration,
             den |-> total_time_logged, color |-> g.color])
       /\ bar_start_x' = bar_start_x + g.duration
  /\ idx' = idx + 1
  /\ UNCHANGED <<raw, pc, abort, parsed, parseVars, now, renderVars>>
  /\ UNCHANGED <<document, offset, hmsVars>>

\* default.rs 195-197, main.rs 136: the page is done, doc.finish()
Finish ==
  /\ pc = "bars"
  /\ idx > Len(sorted)
  /\ document' = "finished"
  /\ pc' = "done"
  /\ UNCHANGED <<raw, abort, parsed, parseVars, idx, now, renderVars>>
  /\ UNCHANGED <<canvas, offset, bar_start_x, hmsVars>>

Next ==
  \/ ReadSplit
  \/ ParseHeader
  \/ ParseBody
  \/ ParseRecord
  \/ ParseReturn
  \/ RenderBoundaries
  \/ AggregateStep
  \/ Encode
  \/ CreateDocument
  \/ DrawTitle
  \/ LegendRow
  \/ TotalRow
  \/ BarSegment
  \/ Finish

Spec == Init /\ [][Next]_vars

\* -------------------------------------------- format_hms on its own
HmsInputs == {h * 3600 + m * 60 + s : h \in {0, 1, 9, 10, 99, MaxHours}, m \in 0..59, s \in 0..59}

InitHms ==
  /\ raw = <<>>
  /\ pc = "hms"
  /\ Fresh
  /\ hms_in \in HmsInputs
  /\ hms_out = <<>>

FormatHms ==
  /\ pc = "hms"
  /\ hms_out' = format_hms(hms_in)
  /\ pc' = "hms_done"
  /\ UNCHANGED <<raw, abort, parsed, parseVars, idx, now, renderVars, drawVars, hms_in>>

NextHms == FormatHms

SpecHms == InitHms /\ [][NextHms]_vars


\* ================================================================ claims
\* The aggregation loop has run over this many intervals.
AfterAggregation == pc \in {"create", "title", "legend", "bars", "done"}
Processed ==
  IF pc = "aggregate" THEN idx - 1
  ELSE IF AfterAggregation \/ abort = "create" THEN Len(intervals)
  ELSE 0

RECURSIVE SumOfMap(_, _)
SumOfMap(m, keys) ==
  IF keys = {} THEN 0
  ELSE LET k == CHOOSE x \in keys : TRUE IN m[k] + SumOfMap(m, keys \ {k})

RECURSIVE SumOfDurations(_, _)
SumOfDurations(ivs, n) ==
  IF n = 0 THEN 0
  ELSE (ivs[n].end - ivs[n].start) + SumOfDurations(ivs, n - 1)

\* C1: after the aggregation loop has processed any prefix of the intervals, the
\* durations stored in the tag-set map add up to total_time_logged, which is
\* the sum of the durations of the intervals processed so far.
ConservationOfTotalTime ==
  (pc = "aggregate" \/ AfterAggregation) =>
     /\ SumOfMap(unique_tag_sets, DOMAIN unique_tag_sets) = total_time_logged
     /\ total_time_logged = SumOfDurations(intervals, Processed)

\* C1 witness: a tag set has been met a second time and its durations added.
ConservationWitness ==
  /\ pc = "aggregate"
  /\ idx = 3
  /\ Cardinality(DOMAIN unique_tag_sets) = 1
  /\ total_time_logged = 3

\* The strings of a JSON tags array, as a set.
StringsOf(arr) == {arr[j] : j \in DOMAIN arr}

RECURSIVE SumWhere(_, _, _)
SumWhere(n, S, vals) ==
  IF n = 0 THEN 0
  ELSE (IF StringsOf(vals[n].tags) = S THEN intervals[n].end - intervals[n].start ELSE 0)
       + SumWhere(n - 1, S, vals)

RECURSIVE AggregateAll(_, _)
AggregateAll(ivs, m) ==
  IF ivs = <<>> THEN m
  ELSE AggregateAll(Tail(ivs), Accumulate(m, Head(ivs).tags, to_duration(Head(ivs))))

\* C2: intervals whose tag arrays hold the same strings (any order, any
\* duplicates) feed one aggregate entry, intervals whose tag sets differ feed
\* different entries, and every permutation of the interval sequence gives the
\* same aggregates.
GroupingBySetEquality ==
  (pc = "aggregate" \/ AfterAggregation) =>
     /\ DOMAIN unique_tag_sets = {StringsOf(values[i].tags) : i \in 1..Processed}
     /\ \A S \in DOMAIN unique_tag_sets :
          unique_tag_sets[S] = SumWhere(Processed, S, values)
     /\ AfterAggregation =>
          \A p \in Orders(DOMAIN intervals) :
            AggregateAll([i \in DOMAIN intervals |-> intervals[p[i]]], <<>>) = unique_tag_sets

\* C2 witness: two arrays with the same strings in another order and with a
\* duplicate were merged into one entry.
GroupingWitness ==
  /\ pc = "create"
  /\ Len(values) = 2
  /\ values[1].tags = <<"a", "b">>
  /\ values[2].tags = <<"b", "a", "a">>
  /\ DOMAIN unique_tag_sets = {{"a", "b"}}

LegendSwatches == SelectSeq(canvas, LAMBDA c : c.part = "legend" /\ c.op = "rectangle")
LegendLabels == SelectSeq(canvas, LAMBDA c : c.part = "legend" /\ c.op = "left_text")
Bars == SelectSeq(canvas, LAMBDA c : c.part = "bar")

\* C3: legend rows go top to bottom in ascending duration order, each 6 units
\* below the one before; bar segments go left to right in descending duration
\* order; the i-th segment is the (N+1-i)-th legend row, with its colour.
LegendAscendingBarsDescending ==
  pc = "done" =>
    LET n == Len(sorted) IN
      /\ Len(LegendSwatches) = n /\ Len(LegendLabels) = n /\ Len(Bars) = n
      /\ \A k \in 1..n :
           /\ LegendSwatches[k].y = UniqueTagInitialY - RowSpacing * (k - 1)
           /\ LegendLabels[k].y = LegendSwatches[k].y
      /\ \A k \in 1..(n - 1) :
           /\ LegendLabels[k].pct_num <= LegendLabels[k + 1].pct_num
           /\ Bars[k].ratio_num >= Bars[k + 1].ratio_num
           /\ Bars[k + 1].start_num = Bars[k].start_num + Bars[k].ratio_num
      /\ \A i \in 1..n :
           /\ Bars[i].color = LegendSwatches[n + 1 - i].color
           /\ Bars[i].ratio_num * 100 = LegendLabels[n + 1 - i].pct_num

\* C3 witness: a finished page with two groups of different durations.
LegendBarsWitness ==
  /\ pc = "done"
  /\ Len(Bars) = 2
  /\ Bars[1].ratio_num > Bars[2].ratio_num
  /\ Bars[1].color # Bars[2].color


\* ---- the input text, read independently of the parser
HasSep(line) == \E i \in 1..(Len(line) - 1) : line[i] = ":" /\ line[i + 1] = " "
FirstSep(line) ==
  CHOOSE i \in 1..(Len(line) - 1) :
    /\ line[i] = ":" /\ line[i + 1] = " "
    /\ \A j \in 1..(i - 1) : ~(line[j] = ":" /\ line[j + 1] = " ")
KeyOf(line) == SubSeq(line, 1, FirstSep(line) - 1)
ValueOf(line) == SubSeq(line, FirstSep(line) + 2, Len(line))

HasBlank(text) == \E i \in 1..(Len(text) - 1) : text[i] = NL /\ text[i + 1] = NL
FirstBlank(text) ==
  CHOOSE i \in 1..(Len(text) - 1) :
    /\ text[i] = NL /\ text[i + 1] = NL
    /\ \A j \in 1..(i - 1) : ~(text[j] = NL /\ text[j + 1] = NL)
BeforeFirstBlank(text) ==
  IF HasBlank(text) THEN SubSeq(text, 1, FirstBlank(text) - 1) ELSE text
AfterFirstBlank(text) == SubSeq(text, FirstBlank(text) + 2, Len(text))

\* The non-empty lines of a text: the maximal runs without a newline.
NonEmptyLines(text) ==
  {SubSeq(text, a, b) : <<a, b>> \in
     {<<a, b>> \in (1..Len(text)) \X (1..Len(text)) :
        /\ a <= b
        /\ \A j \in a..b : text[j] # NL
        /\ (a = 1 \/ text[a - 1] = NL)
        /\ (b = Len(text) \/ text[b + 1] = NL)}}

\* C4: in an input whose header block a blank line ends, a header line without
\* ": " makes parse_input return MalformedHeaderError as an error value, with
\* no configuration and no intervals; when every line
\* has the separator, the key is the text before the first ": " and the value
\* all the text after it.
HeaderParsing ==
  (pc \notin {"read", "header"} /\ HasBlank(raw)) =>
    LET lines == NonEmptyLines(BeforeFirstBlank(raw)) IN
      IF \E l \in lines : ~HasSep(l)
        THEN parsed = "Err" /\ abort = "header"
        ELSE /\ \A l \in lines : KeyOf(l) \in DOMAIN config
             /\ \A k \in DOMAIN config :
                  \E l \in lines : KeyOf(l) = k /\ ValueOf(l) = config[k]

\* C5: on an empty interval sequence the total is 0, there is no aggregate
\* group, and the hue increment and the percentages are not evaluated.
EmptyReportSkipsEncoding ==
  (AfterAggregation /\ intervals = <<>>) =>
     /\ total_time_logged = 0
     /\ DOMAIN unique_tag_sets = {}
     /\ ~colorspace_increment.evaluated
     /\ LegendLabels = <<>>

\* A JSON object with tags and a start that parses, and no "end" key.
IsOpen(value) ==
  /\ "tags" \in DOMAIN value
  /\ "start" \in DOMAIN value
  /\ value.start \in DOMAIN StampSecs
  /\ "end" \notin DOMAIN value

\* C6: an object with valid tags and start and no "end" key never makes
\* parse_input fail; its interval ends at the clock reading taken while it is
\* parsed; the intervals are the objects of the array, one each, in order.
OpenIntervalPolicy ==
  /\ abort = "record" => ~IsOpen(values[idx])
  /\ (pc = "records" /\ idx > 1 /\ IsOpen(values[idx - 1])) =>
        intervals[idx - 1].end = now
  /\ pc = "records" => Len(intervals) = idx - 1
  /\ parsed = "Ok" => Len(intervals) = Len(values)
  /\ \A i \in DOMAIN intervals :
       /\ i <= Len(values)
       /\ intervals[i].start = StampSecs[values[i].start]
       /\ intervals[i].tags = StringsOf(values[i].tags)
       /\ IF "end" \in DOMAIN values[i]
            THEN intervals[i].end = StampSecs[values[i].end]
            ELSE intervals[i].end \in NowMin..now

\* C6 witness: an open object parsed first, a closed one after it, no failure.
OpenIntervalWitness ==
  /\ parsed = "Ok"
  /\ Len(values) = 2
  /\ IsOpen(values[1])
  /\ "end" \in DOMAIN values[2]
  /\ intervals[1].end = MaxNow
  /\ intervals[2].end = 2

\* Position of the first interval with this tag set.
FirstSeen(S) ==
  CHOOSE i \in DOMAIN intervals :
    /\ intervals[i].tags = S
    /\ \A j \in 1..(i - 1) : intervals[j].tags # S

\* C7: the encoded groups ascend by duration, and groups of equal duration
\* stand in the order their tag sets were first met in the input.
ReproducibleOrdering ==
  AfterAggregation =>
    \A i, j \in DOMAIN sorted :
      i < j =>
        \/ sorted[i].duration < sorted[j].duration
        \/ /\ sorted[i].duration = sorted[j].duration
           /\ FirstSeen(sorted[i].tags) < FirstSeen(sorted[j].tags)

\* C8: the input is cut at the first blank line only: the header block is the
\* text before it and the body handed to the JSON parser all the text after
\* it; an input without a blank line gives an error value, not a crash.
InputSplitting ==
  pc # "read" =>
    IF HasBlank(raw)
      THEN /\ sections[1] = BeforeFirstBlank(raw)
           /\ Len(sections) >= 2
           /\ sections[2] = AfterFirstBlank(raw)
      ELSE pc = "aborted" => parsed = "Err"


\* ---- reading a formatted duration back
IsDigit(ch) == \E i \in DOMAIN DigitChars : DigitChars[i] = ch
DigitValue(ch) == (CHOOSE i \in DOMAIN DigitChars : DigitChars[i] = ch) - 1

RECURSIVE DecimalValue(_)
DecimalValue(t) ==
  IF t = <<>> THEN 0
  ELSE 10 * DecimalValue(SubSeq(t, 1, Len(t) - 1)) + DigitValue(t[Len(t)])

ColonsOf(t) == {i \in DOMAIN t : t[i] = ":"}

\* C9: for a duration of n >= 0 whole seconds format_hms gives "H:MM:SS":
\* H = n div 3600 without padding, MM = (n mod 3600) div 60 and SS = n mod 60
\* with exactly two digits each, so that H*3600 + MM*60 + SS = n.
FormatHmsFields ==
  pc = "hms_done" =>
    /\ Cardinality(ColonsOf(hms_out)) = 2
    /\ LET c1 == CHOOSE i \in ColonsOf(hms_out) : \A j \in ColonsOf(hms_out) : i <= j
           c2 == CHOOSE i \in ColonsOf(hms_out) : \A j \in ColonsOf(hms_out) : j <= i
           hh == SubSeq(hms_out, 1, c1 - 1)
           mm == SubSeq(hms_out, c1 + 1, c2 - 1)
           ss == SubSeq(hms_out, c2 + 1, Len(hms_out))
       IN /\ \A i \in DOMAIN hms_out : i \in {c1, c2} \/ IsDigit(hms_out[i])
          /\ Len(hh) >= 1 /\ (Len(hh) > 1 => hh[1] # "0")
          /\ Len(mm) = 2 /\ Len(ss) = 2
          /\ DecimalValue(hh) = hms_in \div 3600
          /\ DecimalValue(mm) = (hms_in % 3600) \div 60
          /\ DecimalValue(ss) = hms_in % 60
          /\ DecimalValue(mm) \in 0..59 /\ DecimalValue(ss) \in 0..59
          /\ DecimalValue(hh) * 3600 + DecimalValue(mm) * 60 + DecimalValue(ss) = hms_in

\* C9 witness: a duration of three-digit hours with one-digit minutes and seconds.
FormatHmsWitness ==
  /\ pc = "hms_done"
  /\ hms_in = MaxHours * 3600 + 5 * 60 + 7
  /\ Len(hms_out) = Len(NatText(MaxHours)) + 6
  /\ SubSeq(hms_out, Len(hms_out) - 5, Len(hms_out)) = <<":", "0", "5", ":", "0", "7">>

\* ---- what the run has put out
OutputStarted == document # "none" \/ canvas # <<>>
BoundaryTextOk(text) == Len(text) = 1 /\ text[1] \in DOMAIN StampSecs
ObjectOk(value) ==
  /\ "tags" \in DOMAIN value
  /\ "start" \in DOMAIN value
  /\ value.start \in DOMAIN StampSecs
  /\ ("end" \in DOMAIN value => value.end \in DOMAIN StampSecs)

NoOutputBeforeParsing ==
  /\ OutputStarted =>
       /\ parsed = "Ok"
       /\ HasBlank(raw)
       /\ \A l \in NonEmptyLines(BeforeFirstBlank(raw)) : HasSep(l)
       /\ \A i \in DOMAIN values : ObjectOk(values[i])
       /\ Len(intervals) = Len(values)
       /\ StartKey \in DOMAIN config /\ EndKey \in DOMAIN config
       /\ BoundaryTextOk(config[StartKey])
       /\ (config[EndKey] = <<>> \/ BoundaryTextOk(config[EndKey]))
  /\ canvas # <<>> => document # "none"
  /\ parsed \in {"Err", "Panic"} => pc = "aborted"
  /\ abort \in {"header", "body", "record", "boundary"} =>
       pc = "aborted" /\ document = "none" /\ canvas = <<>>

\* C10: the document is created and drawn on only after parse_input has
\* succeeded and the report boundaries have parsed; a failure of header, body,
\* timestamp or boundary parsing ends the run with no document, no drawing
\* instruction and no further step.
AbortBeforeOutput == [](NoOutputBeforeParsing) /\ [][pc # "aborted"]_vars

\* C10 witness: the run was ended by a boundary that does not parse, after a
\* successful parse_input, with nothing put out.
AbortBeforeOutputWitness ==
  /\ pc = "aborted"
  /\ abort = "boundary"
  /\ parsed = "Ok"
  /\ Len(intervals) = 2
  /\ document = "none"

====
